---- MODULE Spec2Model ----
(***************************************************************************)
(* Model of the rust-async-scheduler core: the LocalExecutor run loop      *)
(* (src/src/executor.rs), the wake protocol (src/src/waker.rs), the Sleep  *)
(* and Yield futures (src/src/sleep.rs, src/src/yield_now.rs) and the two  *)
(* mailbox variants (src/src/mailbox.rs, src/src/sync/mailbox.rs).         *)
(*                                                                         *)
(* One executor with N task slots runs N task futures.  A task future is   *)
(* an async block that awaits a fixed sequence of operations; the model    *)
(* keeps, per task, the index of the operation it is suspended in and the  *)
(* state of the future it is awaiting.  The Environment collaborator (the  *)
(* clock and the idle wait) and a second execution context (an interrupt   *)
(* handler that holds wake handles and posts to a sync mailbox) are        *)
(* modelled as nondeterministic actions.                                   *)
(*                                                                         *)
(* Option<T> is modelled as a sequence: <<>> is None and <<x>> is Some(x). *)
(***************************************************************************)
EXTENDS Integers, Sequences, FiniteSets, TLC

\* ------------------------------------------------------------------ bounds
\* Number of task slots of the executor (the const generic N).
N == 2
\* Iterations of the loops in the sleeping and the yielding task.
Loops == 2
\* Ticks a looping task sleeps for in each iteration.
SleepTicks == 2
\* The clock may always advance up to this reading; beyond it, it advances
\* only while some Sleep future still waits for a later tick.
MaxTick == 2
\* Number of posts the second execution context makes.
MaxExtPosts == 2
\* Number of times the second execution context wakes a handle it holds.
MaxExtWakes == 1

\* Number of calls made on the wake handles of the waker.rs scenario.
MaxWakerOps == 4
\* Number of handles built in the waker.rs scenario.
MaxHandles == 2

\* --------------------------------------------------------------- constants
\* Instant::MIN and Instant::MAX, scaled from the 64 bits of i64 to 21 bits,
\* which the model checker's integers cover with room for a product.
InstantMin == -1048576
InstantMax == 1048575
\* usize::MAX, the value of current_task before the first pass.
UsizeMax == 999999

None == <<>>
Some(x) == <<x>>
IsSome(o) == o # <<>>
Unwrap(o) == o[1]
UnwrapOr(o, d) == IF o = <<>> THEN d ELSE o[1]

Slots == 0 .. (N - 1)

\* ------------------------------------------------------------ bit masks
RECURSIVE Pow2(_)
Pow2(n) == IF n = 0 THEN 1 ELSE 2 * Pow2(n - 1)

\* a | b on unsigned words
RECURSIVE BitOr(_, _)
BitOr(a, b) ==
    IF a = 0 THEN b
    ELSE IF b = 0 THEN a
    ELSE (IF a % 2 = 1 \/ b % 2 = 1 THEN 1 ELSE 0) + 2 * BitOr(a \div 2, b \div 2)

\* a & b on unsigned words
RECURSIVE BitAnd(_, _)
BitAnd(a, b) ==
    IF a = 0 \/ b = 0 THEN 0
    ELSE (IF a % 2 = 1 /\ b % 2 = 1 THEN 1 ELSE 0) + 2 * BitAnd(a \div 2, b \div 2)

\* a & !b on unsigned words
RECURSIVE BitAndNot(_, _)
BitAndNot(a, b) ==
    IF a = 0 THEN 0
    ELSE (IF a % 2 = 1 /\ b % 2 = 0 THEN 1 ELSE 0) + 2 * BitAndNot(a \div 2, b \div 2)

\* ------------------------------------------------------------ task programs
\* An operation of a task body:
\*   <<"post", m, v>>   m.post(v)
\*   <<"read", m>>      m.read().await
\*   <<"sleep", ds>>    join!(sleep(ds[1]), ..., sleep(ds[n])); n = 1 is sleep(d).await
\*   <<"yield">>        yield_now().await
\*   <<"ret", v>>       the task's result v is written to its output
\*   <<"try_read", m>>  m.try_read()
\*   <<"run">>          LocalExecutor::new().run([...]) inside the task
\*   <<"select", m, d>> select! over m.read() and sleep(d): the branches are
\*                      polled in either order, the first one that is Ready
\*                      wins and the other future is dropped
RECURSIVE Repeat(_, _)
Repeat(op, n) == IF n = 0 THEN <<>> ELSE <<op>> \o Repeat(op, n - 1)

\* src/src/mailbox.rs post_and_read(&mbox1, 42, &mbox2)
PostAndRead == << <<"post", "m1", "42">>, <<"read", "m2">> >>
\* src/src/mailbox.rs read_and_post(&mbox1, &mbox2, "hello")
ReadAndPost == << <<"read", "m1">>, <<"post", "m2", "hello">> >>
\* src/src/sleep.rs sleep_and_wake: sleep in a loop, then return 42
SleepAndWake == Repeat(<<"sleep", <<SleepTicks>>>>, Loops) \o << <<"ret", "42">> >>
\* src/src/yield_now.rs yield_and_wake: yield in a loop, then return 42
YieldAndWake == Repeat(<<"yield">>, Loops) \o << <<"ret", "42">> >>
\* three joined sleeps: the second asks for an earlier deadline than the
\* first, the third for a later one than the second
JoinedSleeps == << <<"sleep", <<2, 1, 2>>>> >>
\* two posts to one mailbox, then a read of it
MultiPost == << <<"post", "m1", "1">>, <<"post", "m1", "2">>, <<"read", "m1">> >>
\* a read of the mailbox the second execution context posts to
ReadExternal == << <<"read", "mx">> >>
\* a task that yields once and then runs an executor of its own
NestedRun == << <<"yield">>, <<"run">> >>
\* The task bodies of the scenarios about the registration of the executor.
ScopePrograms == { SleepAndWake, YieldAndWake, NestedRun }

\* src/src/mailbox.rs double_read_returns_error: the second reader, which
\* then posts 42
DoubleRead == << <<"read", "m1">>, <<"post", "m1", "42">> >>
\* two reads of the mailbox the second execution context posts to
ReadTwice == << <<"read", "mx">>, <<"read", "mx">> >>
\* a read that is abandoned when a sleep of one tick ends, then a read
SelectThenRead == << <<"select", "m1", 1>>, <<"read", "m1">> >>
\* the same on the mailbox the second execution context posts to
SelectExternal == << <<"select", "mx", 1>> >>
\* src/src/sync/mailbox.rs try_read: try_read, post 42, try_read
TryRead == << <<"try_read", "mx">>, <<"post", "mx", "42">>, <<"try_read", "mx">> >>

\* The task bodies of the mailbox scenarios.
MailboxPrograms ==
    { ReadAndPost, DoubleRead, ReadTwice, SelectThenRead, SelectExternal, TryRead }

Programs ==
    { PostAndRead, ReadAndPost, SleepAndWake, YieldAndWake,
      JoinedSleeps, MultiPost, ReadExternal }

\* The mailboxes a task body uses.
UsedBy(prog) ==
    { prog[n][2] : n \in { k \in 1 .. Len(prog) :
                              prog[k][1] \in {"post", "read", "try_read", "select"} } }

Mailboxes == {"m1", "m2", "mx"}
\* the n-th value the second execution context posts
ExtValue(n) == IF n % 2 = 1 THEN "x" ELSE "y"

VARIABLES
    pc,             \* position of the thread that called LocalExecutor::run
    tasks,          \* LocalExecutor.tasks: [Option<TaskInfo>; N]
    ready_mask,     \* LocalExecutor.ready_mask
    current_task,   \* LocalExecutor.current_task
    index,          \* position of run_once's iterator over the slots
    acc,            \* run_once: the minimum RunResult seen so far in the pass
    env_executor,   \* Environment: TRUE while an executor is registered
    now,            \* Environment: the clock
    progs,          \* the task bodies handed to run()
    fut,            \* state of each task's future
    out,            \* what each task has observed: read results, its result
    mbox,           \* the mailboxes: value and waker
    mkind,          \* which Mailbox type m1 and m2 are: "local" or "sync"
    ext,            \* the second execution context
    reqs,           \* history: deadlines requested during the current poll
    posted,         \* history: per mailbox, number of posts
    taken,          \* history: per mailbox, number of values handed to a read
    lost,           \* history: per mailbox, number of values overwritten unread
    last_post,      \* history: per mailbox, the last post: value, returned value
    woken,          \* history: per slot, a handle was built or woken since the last take
    pass,           \* history: the slots polled in the current pass, and the pairs
                    \* <<i, j>> such that the poll of slot i woke slot j in it
    last_poll,      \* history: the last MailboxFuture::poll
    wk,             \* waker.rs on its own: a mask, handles on it, two contexts
    tm,             \* time.rs on its own: operands and the result of an expression
    ev,             \* event.rs under lib.rs block_on: the event, the timer, the futures
    call            \* the last call of a free function of executor.rs from outside a task

vars == << pc, tasks, ready_mask, current_task, index, acc, env_executor, now,
           progs, fut, out, mbox, mkind, ext, reqs, posted, taken, lost,
           last_post, last_poll, woken, pass, wk, tm, ev, call >>


\* ------------------------------------------------------------ waker.rs
\* Width of the ready bitmask (AtomicU32).
MaskBits == 32
\* `task_idx as u32` keeps the low bits of the index.  The modulus 2^32 is
\* scaled to 2^30, the largest power of two the model checker's integers
\* leave room for.
U32Modulus == 1073741824
AsU32(x) == x % U32Modulus

\* 1u32.checked_shl(n): None when n is not below the width of the word
CheckedShl(n) == IF n >= MaskBits THEN None ELSE Some(Pow2(n))

\* Mutant of WakerInfoNew: the task's bit is not set.
WakerInfoNewNotReady(task_idx, mask) ==
    LET m == CheckedShl(AsU32(task_idx)) IN
    IF m = None \/ Unwrap(m) = 0
    THEN [err |-> "TaskIndexOutOfRange", mask |-> mask]
    ELSE [err |-> "", waker |-> [task_mask |-> Unwrap(m)], mask |-> mask]

\* WakerInfo::new: the handle and the ready mask with the task's bit set,
\* or the error.
WakerInfoNew(task_idx, mask) ==
    LET m == CheckedShl(AsU32(task_idx)) IN
    IF m = None \/ Unwrap(m) = 0
    THEN [err |-> "TaskIndexOutOfRange", mask |-> mask]
    ELSE [err |-> "", waker |-> [task_mask |-> Unwrap(m)],
          mask |-> BitOr(mask, Unwrap(m))]

\* Mutant of IsTaskRunnable: the whole mask is cleared.
IsTaskRunnableClearsAll(waker, mask) ==
    [runnable |-> BitAnd(mask, waker.task_mask) # 0, mask |-> 0]

\* Mutant of IsTaskRunnable: the bit is read and not cleared.
IsTaskRunnableKeepsBit(waker, mask) ==
    [runnable |-> BitAnd(mask, waker.task_mask) # 0, mask |-> mask]

\* WakerInfo::is_task_runnable: fetch_and(!task_mask); the value returned
\* and the mask afterwards.
IsTaskRunnable(waker, mask) ==
    [runnable |-> BitAnd(mask, waker.task_mask) # 0,
     mask |-> BitAndNot(mask, waker.task_mask)]

\* Mutant of WakeTask: the mask is left as it is.
WakeTaskNoop(waker, mask) == mask

\* WakerInfo::wake_task: fetch_or(task_mask); the mask afterwards.
WakeTask(waker, mask) == BitOr(mask, waker.task_mask)

\* Waking through a raw waker whose data pointer is &tasks[j].waker.  While
\* slot j is occupied this is wake_task on its WakerInfo.  Once run_task
\* has stored None in the slot, the pointer refers to a WakerInfo that no
\* longer exists: the read is undefined, and the outcomes are that the
\* mask is left alone (task_mask reads as 0), that the old task_mask is
\* still read and its bit is set, or that the process aborts (the mask
\* pointer reads as null).
WakeByRef(j, tsk, mask) ==
    IF IsSome(tsk[j])
    THEN { [mask |-> WakeTask(Unwrap(tsk[j]).waker, mask), abort |-> FALSE] }
    ELSE { [mask |-> mask, abort |-> FALSE],
           [mask |-> BitOr(mask, Pow2(j)), abort |-> FALSE],
           [mask |-> mask, abort |-> TRUE] }

\* History: wake_task has been called on the handle of the occupied slot j.
Woke(j, tsk, w) == IF IsSome(tsk[j]) THEN [w EXCEPT ![j] = TRUE] ELSE w

\* ------------------------------------------------------------ executor.rs
WaitForTick(tick) == [kind |-> "WaitForTick", tick |-> tick]
WaitForEvent == [kind |-> "WaitForEvent", tick |-> InstantMin]
NoMoreTasks == [kind |-> "NoMoreTasks", tick |-> InstantMin]

\* Mutant of Tuple: waiting for an event comes before waiting for a tick.
TupleEventFirst(r) ==
    IF r.kind = "WaitForEvent" THEN <<0, InstantMin>>
    ELSE IF r.kind = "WaitForTick" THEN <<1, r.tick>>
    ELSE <<2, InstantMin>>

\* RunResult::tuple
Tuple(r) ==
    IF r.kind = "WaitForTick" THEN <<0, r.tick>>
    ELSE IF r.kind = "WaitForEvent" THEN <<1, InstantMin>>
    ELSE <<2, InstantMin>>

TupleGreater(a, b) == a[1] > b[1] \/ (a[1] = b[1] /\ a[2] > b[2])

\* Mutant of MinByKey: the greatest element is kept.
MaxByKey(a, r) ==
    IF a = None THEN Some(r)
    ELSE IF TupleGreater(Tuple(r), Tuple(Unwrap(a))) THEN Some(r) ELSE a

\* One step of Iterator::min_by_key(RunResult::tuple): the first of the
\* smallest elements is kept.
MinByKey(a, r) ==
    IF a = None THEN Some(r)
    ELSE IF TupleGreater(Tuple(Unwrap(a)), Tuple(r)) THEN Some(r) ELSE a

\* Mutant of ShouldPoll: the ready bit is not looked at.
ShouldPollOnlyDue(runnable, task, clock) ==
    IsSome(task.sleep_until) /\ Unwrap(task.sleep_until) <= clock

\* Mutant of ShouldPoll: the sleep deadline is not looked at.
ShouldPollOnlyRunnable(runnable, task, clock) == runnable

\* run_task, lines 166-171: whether the task is polled in this pass
ShouldPoll(runnable, task, clock) ==
    runnable \/ (IsSome(task.sleep_until) /\ Unwrap(task.sleep_until) <= clock)

\* Mutant of ClearSleepUntil: the stored sleep-until is kept.
ClearSleepUntilKeeps(task) == task

\* run_task, line 176: task.sleep_until.set(None) before the poll
ClearSleepUntil(task) == [task EXCEPT !.sleep_until = None]

\* run_task, lines 185-193: what the slot asks of the run loop
RunResultOf(cell) ==
    IF IsSome(cell)
    THEN IF IsSome(Unwrap(cell).sleep_until)
         THEN WaitForTick(Unwrap(Unwrap(cell).sleep_until))
         ELSE WaitForEvent
    ELSE NoMoreTasks

\* Mutant of AfterPoll: the slot of a finished task is not emptied.
AfterPollKeepsTask(cell, result) == cell

\* run_task, lines 179-181: the slot after the poll returned `result`
AfterPoll(cell, result) == IF result = "Ready" THEN None ELSE cell

\* Mutant of SetSleepUntil: the most recent request wins.
SetSleepUntilLatest(task, wake_at) == [task EXCEPT !.sleep_until = Some(wake_at)]

\* LocalExecutor::request_wakeup: the task record afterwards
SetSleepUntil(task, wake_at) ==
    IF UnwrapOr(task.sleep_until, InstantMax) > wake_at
    THEN [task EXCEPT !.sleep_until = Some(wake_at)]
    ELSE task

\* Mutant of SleepDeadline: the duration is taken for the deadline.
SleepDeadlineIsDuration(clock, duration) == duration

\* LocalExecutor::sleep: the deadline of the Sleep it returns
SleepDeadline(clock, duration) == clock + duration

\* executor.rs request_wakeup, line 233: whether the sleep is over
SleepIsOver(clock, wake_at) == clock >= wake_at

\* ------------------------------------------------------------ futures
InitFut ==
    [ip |-> 1, stage |-> "init", sleeps |-> <<>>, k |-> 0, ready |-> FALSE, w |-> None,
     rd |-> "new", polled |-> {}]

NoPost == [value |-> "", ret |-> None, woke |-> None]
NoPass == [polled |-> {}, woke |-> {}]
NoPoll == [mbox |-> "", value |-> None, waker |-> None, result |-> None, slot |-> 0, seq |-> 0]
\* The scenarios of waker.rs, time.rs and event.rs are not running, and no
\* free function has been called from outside a task.
NoWk == [pc |-> "off"]
NoTm == [pc |-> "off"]
NoEv == [pc |-> "off"]
NoCall == [fn |-> "", registered |-> FALSE, outcome |-> ""]

Running == pc \notin {"new", "done", "abort"}
Polling == pc = "poll"
Finished(i) == fut[i].ip > Len(progs[i])
Op(i) == progs[i][fut[i].ip]
KindOf(m) == IF m = "mx" THEN "sync" ELSE mkind

\* LocalExecutor::new, the task bodies drawn from P, and the mailboxes a
\* test creates next to it.
InitExecutor(P) ==
    /\ pc = "new"
    /\ tasks = [i \in Slots |-> None]
    /\ ready_mask = 0
    /\ current_task = UsizeMax
    /\ index = 0
    /\ acc = None
    /\ env_executor = FALSE
    /\ now = 0
    /\ progs \in [Slots -> P]
    /\ fut = [i \in Slots |-> InitFut]
    /\ out = [i \in Slots |-> <<>>]
    /\ mbox = [m \in Mailboxes |-> [value |-> None, waker |-> None]]
    /\ mkind \in {"local", "sync"}
    /\ mkind = "sync" => \E i \in Slots : UsedBy(progs[i]) \cap {"m1", "m2"} # {}
    /\ ext = [pc |-> "idle", waker |-> None, posts |-> 0, wakes |-> 0]
    /\ reqs = {}
    /\ posted = [m \in Mailboxes |-> 0]
    /\ taken = [m \in Mailboxes |-> 0]
    /\ lost = [m \in Mailboxes |-> 0]
    /\ last_post = [m \in Mailboxes |-> NoPost]
    /\ woken = [i \in Slots |-> FALSE]
    /\ pass = NoPass
    /\ last_poll = NoPoll

InitWith(P) ==
    /\ InitExecutor(P)
    /\ wk = NoWk
    /\ tm = NoTm
    /\ ev = NoEv
    /\ call = NoCall

Init == InitWith(Programs)
\* The state after construction, with the task bodies of the mailbox scenarios.
InitMailbox == InitWith(MailboxPrograms)

taskVars == << fut, out, mbox, reqs, posted, taken, lost, last_post, last_poll >>
\* What no step of the executor, of a task or of the second execution
\* context changes: the task bodies, the type of the mailboxes, and the
\* state of the scenarios that run without this executor.
constVars == << progs, mkind, wk, tm, ev, call >>
\* The executor, its tasks, the mailboxes and the second execution context.
executorVars ==
    << pc, tasks, ready_mask, current_task, index, acc, env_executor, now,
       progs, fut, out, mbox, mkind, ext, reqs, posted, taken, lost,
       last_post, last_poll, woken, pass >>

\* LocalExecutor::run, lines 129-134: every slot gets a task record whose
\* wake handle is built by WakerInfo::new(index, &ready_mask).unwrap().
RECURSIVE FillFrom(_, _, _)
FillFrom(i, tsk, mask) ==
    IF i = N THEN [tasks |-> tsk, mask |-> mask, err |-> ""]
    ELSE LET w == WakerInfoNew(i, mask) IN
         IF w.err # "" THEN [tasks |-> tsk, mask |-> mask, err |-> w.err]
         ELSE FillFrom(i + 1,
                       [tsk EXCEPT ![i] = Some([waker |-> w.waker, sleep_until |-> None])],
                       w.mask)

Run ==
    /\ pc = "new"
    /\ LET r == FillFrom(0, tasks, ready_mask) IN
       /\ tasks' = r.tasks
       /\ ready_mask' = r.mask
       /\ woken' = [i \in Slots |-> IsSome(r.tasks[i])]
       /\ pc' = IF r.err # "" THEN "abort" ELSE "enter"
    /\ UNCHANGED << current_task, index, acc, env_executor, now, ext, pass >>
    /\ UNCHANGED taskVars
    /\ UNCHANGED constVars

\* Mutant of EnterExecutor: a second registration replaces the first.
EnterExecutorUnchecked(registered) == [abort |-> FALSE, registered |-> TRUE]

\* Environment::enter_executor, as the environment of the tests has it:
\* it panics when an executor is registered, and registers otherwise.
EnterExecutor(registered) == [abort |-> registered, registered |-> TRUE]

\* run_once, line 151: Enter::new(self) registers the executor; the
\* environment panics when one is registered already.
EnterPass ==
    /\ pc = "enter"
    /\ IF EnterExecutor(env_executor).abort
       THEN pc' = "abort" /\ UNCHANGED << env_executor, index, acc >>
       ELSE /\ env_executor' = EnterExecutor(env_executor).registered
            /\ index' = 0
            /\ acc' = None
            /\ pc' = IF N = 0 THEN "leave" ELSE "check"
    /\ UNCHANGED << tasks, ready_mask, current_task, now, ext >>
    /\ UNCHANGED taskVars
    /\ UNCHANGED << woken, pass >>
    /\ UNCHANGED constVars

\* After the closure of run_once has returned for slot `index`: the
\* iterator moves on; after the last slot the pass is over.
NextSlotPc == IF index + 1 >= N THEN "leave" ELSE "check"

\* run_once, lines 156-159, and run_task up to the poll: current_task is
\* set, the ready bit is taken, and either the poll begins or the slot's
\* result is computed at once.
RunTaskCheck ==
    /\ pc = "check"
    /\ current_task' = index
    /\ LET cell == tasks[index] IN
       IF IsSome(cell)
       THEN LET task == Unwrap(cell)
                t == IsTaskRunnable(task.waker, ready_mask)
            IN /\ ready_mask' = t.mask
               /\ woken' = [woken EXCEPT ![index] = FALSE]
               /\ IF ShouldPoll(t.runnable, task, now)
                  THEN /\ tasks' = [tasks EXCEPT ![index] = Some(ClearSleepUntil(task))]
                       /\ reqs' = {}
                       /\ pc' = "poll"
                       /\ pass' = [pass EXCEPT !.polled = @ \cup {index}]
                       /\ UNCHANGED << index, acc >>
                  ELSE /\ acc' = MinByKey(acc, RunResultOf(cell))
                       /\ index' = index + 1
                       /\ pc' = NextSlotPc
                       /\ UNCHANGED << tasks, reqs, pass >>
       ELSE /\ acc' = MinByKey(acc, RunResultOf(cell))
            /\ index' = index + 1
            /\ pc' = NextSlotPc
            /\ UNCHANGED << tasks, ready_mask, reqs, woken, pass >>
    /\ UNCHANGED << env_executor, now, ext >>
    /\ UNCHANGED << fut, out, mbox, posted, taken, lost, last_post, last_poll >>
    /\ UNCHANGED constVars

\* run_task, lines 178-193: the poll has returned; a finished task's slot
\* is emptied and the slot's result joins the minimum of the pass.
RunTaskReturn ==
    /\ \/ pc = "pending"
       \/ pc = "poll" /\ Finished(index)
    /\ LET result == IF pc = "pending" THEN "Pending" ELSE "Ready"
           cell == AfterPoll(tasks[index], result)
       IN /\ tasks' = [tasks EXCEPT ![index] = cell]
          /\ acc' = MinByKey(acc, RunResultOf(cell))
    /\ index' = index + 1
    /\ pc' = NextSlotPc
    /\ UNCHANGED << ready_mask, current_task, env_executor, now, ext >>
    /\ UNCHANGED taskVars
    /\ UNCHANGED << woken, pass >>
    /\ UNCHANGED constVars

\* run_once, lines 160-162, and the match of run: the guard is dropped
\* (leave_executor), and the run loop idles or stops.
RunOnceReturn ==
    /\ pc = "leave"
    /\ IF ~env_executor
       THEN pc' = "abort" /\ UNCHANGED << env_executor, acc >>
       ELSE /\ env_executor' = FALSE
            /\ acc' = Some(UnwrapOr(acc, NoMoreTasks))
            /\ pc' = IF UnwrapOr(acc, NoMoreTasks).kind = "NoMoreTasks"
                     THEN "done" ELSE "wait"
    /\ UNCHANGED << tasks, ready_mask, current_task, index, now, ext >>
    /\ UNCHANGED taskVars
    /\ pass' = NoPass
    /\ UNCHANGED woken
    /\ UNCHANGED constVars

\* Mutant of WaitMustReturn: only the deadline ends the wait.
WaitMustReturnAtDeadline ==
    Unwrap(acc).kind = "WaitForTick" /\ now >= Unwrap(acc).tick

\* Environment::wait_for_event_with_deadline has to return when the mask
\* is non-zero or the deadline is reached.
WaitMustReturn ==
    \/ ready_mask # 0
    \/ Unwrap(acc).kind = "WaitForTick" /\ now >= Unwrap(acc).tick

WaitReturn ==
    /\ pc = "wait"
    /\ WaitMustReturn
    /\ pc' = "enter"
    /\ UNCHANGED << tasks, ready_mask, current_task, index, acc, env_executor, now, ext >>
    /\ UNCHANGED taskVars
    /\ UNCHANGED << woken, pass >>
    /\ UNCHANGED constVars

\* ... and may return early at any time.
WaitReturnEarly ==
    /\ pc = "wait"
    /\ ~WaitMustReturn
    /\ pc' = "enter"
    /\ UNCHANGED << tasks, ready_mask, current_task, index, acc, env_executor, now, ext >>
    /\ UNCHANGED taskVars
    /\ UNCHANGED << woken, pass >>
    /\ UNCHANGED constVars


\* ------------------------------------------------------------ mailbox.rs
\* Mutant of LocalPost: the registered waker is left in place, not woken.
LocalPostNoWake(mb, v) ==
    [mb |-> [mb EXCEPT !.value = Some(v)], old |-> mb.value, waker |-> None]

\* Mailbox::post: the mailbox afterwards, the value returned and the
\* waker that is woken.
LocalPost(mb, v) ==
    [mb |-> [value |-> Some(v), waker |-> None], old |-> mb.value, waker |-> mb.waker]

\* Mutant of LocalReadCheck: the waker that was taken is not put back.
LocalReadCheckDropsWaker(mb) ==
    IF IsSome(mb.waker) THEN [mb |-> [mb EXCEPT !.waker = None], err |-> "AlreadyWaiting"]
    ELSE [mb |-> [mb EXCEPT !.waker = None], err |-> ""]

\* Mailbox::read, lines 57-63: the waker is taken and, when there was one,
\* put back before the error is returned.
LocalReadCheck(mb) ==
    IF IsSome(mb.waker) THEN [mb |-> mb, err |-> "AlreadyWaiting"]
    ELSE [mb |-> [mb EXCEPT !.waker = None], err |-> ""]

\* Mutant of LocalFuturePoll: the value is read and left in the mailbox.
LocalFuturePollKeepsValue(mb, w) ==
    IF IsSome(mb.value)
    THEN [mb |-> mb, result |-> mb.value]
    ELSE [mb |-> [mb EXCEPT !.waker = Some(w)], result |-> None]

\* MailboxFuture::poll for the waker of slot w: result <<v>> is
\* Poll::Ready(v) and <<>> is Poll::Pending.
LocalFuturePoll(mb, w) ==
    IF IsSome(mb.value)
    THEN [mb |-> [mb EXCEPT !.value = None], result |-> mb.value]
    ELSE [mb |-> [mb EXCEPT !.waker = Some(w)], result |-> None]

\* ------------------------------------------------------------ sync/mailbox.rs
\* Mutant of SyncPostCS: the previous value is dropped, not returned.
SyncPostCSDropsOld(mb, v) ==
    [mb |-> [value |-> Some(v), waker |-> None], old |-> None, waker |-> mb.waker]

\* sync::Mailbox::post, lines 42-47: the critical section.  The waker it
\* returns is woken after the critical section, lines 49-51.
SyncPostCS(mb, v) ==
    [mb |-> [value |-> Some(v), waker |-> None], old |-> mb.value, waker |-> mb.waker]

\* sync::Mailbox::read, lines 58-69
SyncReadCheck(mb) ==
    IF IsSome(mb.waker) THEN [mb |-> mb, err |-> "AlreadyWaiting"]
    ELSE [mb |-> [mb EXCEPT !.waker = None], err |-> ""]

\* sync MailboxFuture::poll
SyncFuturePoll(mb, w) ==
    IF IsSome(mb.value)
    THEN [mb |-> [mb EXCEPT !.value = None], result |-> mb.value]
    ELSE [mb |-> [mb EXCEPT !.waker = Some(w)], result |-> None]

\* sync MailboxFuture::drop
SyncFutureDrop(mb) == [mb EXCEPT !.waker = None]

\* Mutant of SyncTryRead: the waker that was taken is not put back.
SyncTryReadDropsWaker(mb) ==
    IF IsSome(mb.waker)
    THEN [mb |-> [mb EXCEPT !.waker = None], result |-> None, err |-> "AlreadyWaiting"]
    ELSE [mb |-> [mb EXCEPT !.value = None], result |-> mb.value, err |-> ""]

\* sync::Mailbox::try_read: result <<v>> is Ok(Some(v)), <<>> is Ok(None)
SyncTryRead(mb) ==
    IF IsSome(mb.waker)
    THEN [mb |-> mb, result |-> None, err |-> "AlreadyWaiting"]
    ELSE [mb |-> [mb EXCEPT !.value = None], result |-> mb.value, err |-> ""]

\* The MailboxFuture of mailbox.rs has no Drop implementation: dropping it
\* leaves the mailbox as it is.
LocalFutureDrop(mb) == mb

Post(m, mb, v) == IF KindOf(m) = "sync" THEN SyncPostCS(mb, v) ELSE LocalPost(mb, v)
ReadCheck(m, mb) == IF KindOf(m) = "sync" THEN SyncReadCheck(mb) ELSE LocalReadCheck(mb)
FuturePoll(m, mb, w) ==
    IF KindOf(m) = "sync" THEN SyncFuturePoll(mb, w) ELSE LocalFuturePoll(mb, w)

FutureDrop(m, mb) ==
    IF KindOf(m) = "sync" THEN SyncFutureDrop(mb) ELSE LocalFutureDrop(mb)

\* ------------------------------------------------------------ yield_now.rs
\* Mutant of YieldPoll: the waker is not woken.
YieldPollNoWake(ready) ==
    IF ready THEN [ready |-> TRUE, result |-> "Ready", wake |-> FALSE]
    ELSE [ready |-> TRUE, result |-> "Pending", wake |-> FALSE]

\* Yield::poll: the flag afterwards, the result, and whether the waker of
\* the context is woken.
YieldPoll(ready) ==
    IF ready THEN [ready |-> TRUE, result |-> "Ready", wake |-> FALSE]
    ELSE [ready |-> TRUE, result |-> "Pending", wake |-> TRUE]

\* ------------------------------------------------------------ task steps
\* The task's future moves on to its next operation.
Advance(f) == [InitFut EXCEPT !.ip = f.ip + 1]

InTask(kind) == pc = "poll" /\ ~Finished(index) /\ Op(index)[1] = kind

execVars == << tasks, ready_mask, current_task, index, acc, env_executor >>

\* Mutant of WakeAfterCriticalSection: the waker is woken where it is taken.
WakeInsideCriticalSection(m) == FALSE

\* sync::Mailbox::post takes the waker inside critical_section::with (lines
\* 42-47) and wakes it after the closure has returned (lines 49-51);
\* Mailbox::post has no critical section and wakes the waker at once.
WakeAfterCriticalSection(m) == KindOf(m) = "sync"

\* History: the poll of slot `index` has woken the handle of the occupied
\* slot j, whose ready bit was not set.
TaskWoke(j) ==
    IF IsSome(tasks[j]) /\ j # index /\ BitAnd(ready_mask, Pow2(j)) = 0
    THEN [pass EXCEPT !.woke = @ \cup {<<index, j>>}]
    ELSE pass

\* History of the posts to mailbox m.
CountPost(m, v, r) ==
    /\ posted' = [posted EXCEPT ![m] = @ + 1]
    /\ lost' = [lost EXCEPT ![m] = @ + (IF IsSome(r.old) THEN 1 ELSE 0)]
    /\ last_post' = [last_post EXCEPT ![m] = [value |-> v, ret |-> r.old, woke |-> r.waker]]

\* m.post(v) in a task body
StepPost ==
    /\ InTask("post")
    /\ fut[index].stage = "init"
    /\ LET m == Op(index)[2]
           v == Op(index)[3]
           r == Post(m, mbox[m], v)
       IN /\ mbox' = [mbox EXCEPT ![m] = r.mb]
          /\ CountPost(m, v, r)
          /\ IF r.waker = None
             THEN /\ fut' = [fut EXCEPT ![index] = Advance(@)]
                  /\ UNCHANGED << pc, ready_mask, woken, pass >>
             ELSE IF WakeAfterCriticalSection(m)
             THEN /\ fut' = [fut EXCEPT ![index] = [@ EXCEPT !.stage = "wake", !.w = r.waker]]
                  /\ UNCHANGED << pc, ready_mask, woken, pass >>
             ELSE /\ fut' = [fut EXCEPT ![index] = Advance(@)]
                  /\ woken' = Woke(Unwrap(r.waker), tasks, woken)
                  /\ pass' = TaskWoke(Unwrap(r.waker))
                  /\ \E o \in WakeByRef(Unwrap(r.waker), tasks, ready_mask) :
                        /\ ready_mask' = o.mask
                        /\ pc' = IF o.abort THEN "abort" ELSE pc
    /\ UNCHANGED << tasks, current_task, index, acc, env_executor, now, ext >>
    /\ UNCHANGED << out, reqs, taken, last_poll >>
    /\ UNCHANGED constVars

\* sync::Mailbox::post, lines 49-51: the waker taken in the critical
\* section is woken
StepPostWake ==
    /\ InTask("post")
    /\ fut[index].stage = "wake"
    /\ fut' = [fut EXCEPT ![index] = Advance(@)]
    /\ woken' = Woke(Unwrap(fut[index].w), tasks, woken)
    /\ pass' = TaskWoke(Unwrap(fut[index].w))
    /\ \E o \in WakeByRef(Unwrap(fut[index].w), tasks, ready_mask) :
          /\ ready_mask' = o.mask
          /\ pc' = IF o.abort THEN "abort" ELSE pc
    /\ UNCHANGED << tasks, current_task, index, acc, env_executor, now, ext >>
    /\ UNCHANGED << out, mbox, reqs, posted, taken, lost, last_post, last_poll >>
    /\ UNCHANGED constVars

\* m.read(): the first poll of the async fn runs the AlreadyWaiting check
StepReadCheck ==
    /\ InTask("read")
    /\ fut[index].stage = "init"
    /\ LET m == Op(index)[2]
           r == ReadCheck(m, mbox[m])
       IN /\ mbox' = [mbox EXCEPT ![m] = r.mb]
          /\ IF r.err # ""
             THEN /\ out' = [out EXCEPT ![index] = Append(@, r.err)]
                  /\ fut' = [fut EXCEPT ![index] = Advance(@)]
             ELSE /\ fut' = [fut EXCEPT ![index] = [@ EXCEPT !.stage = "fut"]]
                  /\ UNCHANGED out
    /\ UNCHANGED pc
    /\ UNCHANGED execVars
    /\ UNCHANGED << now, ext, reqs, posted, taken, lost, last_post, last_poll >>
    /\ UNCHANGED << woken, pass >>
    /\ UNCHANGED constVars

\* fut.await: MailboxFuture::poll with the waker of the polled task
StepReadPoll ==
    /\ InTask("read")
    /\ fut[index].stage = "fut"
    /\ LET m == Op(index)[2]
           r == FuturePoll(m, mbox[m], index)
       IN /\ mbox' = [mbox EXCEPT ![m] = r.mb]
          /\ last_poll' = [mbox |-> m, value |-> mbox[m].value, waker |-> mbox[m].waker,
                           result |-> r.result, slot |-> index,
                           seq |-> 1 - last_poll.seq]
          /\ IF IsSome(r.result)
             THEN /\ out' = [out EXCEPT ![index] = Append(@, Unwrap(r.result))]
                  /\ taken' = [taken EXCEPT ![m] = @ + 1]
                  /\ fut' = [fut EXCEPT ![index] =
                               IF KindOf(m) = "sync" THEN [@ EXCEPT !.stage = "drop"]
                               ELSE Advance(@)]
                  /\ UNCHANGED pc
             ELSE /\ pc' = "pending"
                  /\ UNCHANGED << out, taken, fut >>
    /\ UNCHANGED execVars
    /\ UNCHANGED << now, ext, reqs, posted, lost, last_post >>
    /\ UNCHANGED << woken, pass >>
    /\ UNCHANGED constVars

\* the completed sync MailboxFuture is dropped
StepReadDrop ==
    /\ InTask("read")
    /\ fut[index].stage = "drop"
    /\ mbox' = [mbox EXCEPT ![Op(index)[2]] = SyncFutureDrop(@)]
    /\ fut' = [fut EXCEPT ![index] = Advance(@)]
    /\ UNCHANGED pc
    /\ UNCHANGED execVars
    /\ UNCHANGED << now, ext, out, reqs, posted, taken, lost, last_post, last_poll >>
    /\ UNCHANGED << woken, pass >>
    /\ UNCHANGED constVars

\* executor.rs sleep(d): the Sleep futures of the operation are created
\* one after the other, each reading the clock.
StepSleepCreate ==
    /\ InTask("sleep")
    /\ fut[index].stage \in {"init", "create"}
    /\ IF ~env_executor
       THEN pc' = "abort" /\ UNCHANGED fut
       ELSE LET f == fut[index]
                ds == Op(index)[2]
                d == ds[Len(f.sleeps) + 1]
                s == [wake_at_tick |-> SleepDeadline(now, d), done |-> FALSE,
                      start |-> now, dur |-> d]
            IN /\ fut' = [fut EXCEPT ![index] =
                            [f EXCEPT !.sleeps = Append(f.sleeps, s),
                                      !.stage = IF Len(f.sleeps) + 1 = Len(ds)
                                                THEN "poll" ELSE "create",
                                      !.k = 1]]
               /\ UNCHANGED pc
    /\ UNCHANGED execVars
    /\ UNCHANGED << now, ext, out, mbox, reqs, posted, taken, lost, last_post, last_poll >>
    /\ UNCHANGED << woken, pass >>
    /\ UNCHANGED constVars

\* The Sleep futures of f that have not returned Ready, after position k.
NotDoneAfter(sl, k) == { j \in (k + 1) .. Len(sl) : ~sl[j].done }
MinOf(S) == CHOOSE x \in S : \A y \in S : x <= y

\* Sleep::poll of the k-th joined Sleep, through executor.rs request_wakeup
\* Mutant of RequestWakeup: the deadline goes to every occupied slot.
RequestWakeupEverySlot(tsk, cur, wake_at) ==
    [k \in DOMAIN tsk |->
        IF IsSome(tsk[k]) THEN Some(SetSleepUntil(Unwrap(tsk[k]), wake_at)) ELSE tsk[k]]

\* LocalExecutor::request_wakeup, lines 202-210, on an occupied slot cur
RequestWakeup(tsk, cur, wake_at) ==
    [tsk EXCEPT ![cur] = Some(SetSleepUntil(Unwrap(@), wake_at))]

StepSleepPoll ==
    /\ InTask("sleep")
    /\ fut[index].stage = "poll"
    /\ LET f == fut[index]
           s == f.sleeps[f.k]
           over == SleepIsOver(now, s.wake_at_tick)
           sl == [f.sleeps EXCEPT ![f.k].done = over]
           rest == NotDoneAfter(sl, f.k)
           left == NotDoneAfter(sl, 0)
       IN IF ~over /\ (~env_executor \/ current_task \notin Slots
                        \/ tasks[current_task] = None)
          THEN /\ pc' = "abort"
               /\ UNCHANGED << fut, tasks, reqs >>
          ELSE /\ IF over
                  THEN UNCHANGED << tasks, reqs >>
                  ELSE /\ tasks' = RequestWakeup(tasks, current_task, s.wake_at_tick)
                       /\ reqs' = reqs \cup {s.wake_at_tick}
               /\ IF rest # {}
                  THEN /\ fut' = [fut EXCEPT ![index] = [f EXCEPT !.sleeps = sl, !.k = MinOf(rest)]]
                       /\ UNCHANGED pc
                  ELSE IF left = {}
                  THEN /\ fut' = [fut EXCEPT ![index] = Advance(f)]
                       /\ UNCHANGED pc
                  ELSE /\ fut' = [fut EXCEPT ![index] = [f EXCEPT !.sleeps = sl, !.k = MinOf(left)]]
                       /\ pc' = "pending"
    /\ UNCHANGED << ready_mask, current_task, index, acc, env_executor, now, ext >>
    /\ UNCHANGED << out, mbox, posted, taken, lost, last_post, last_poll >>
    /\ UNCHANGED << woken, pass >>
    /\ UNCHANGED constVars

\* yield_now().await: Yield::poll with the waker of the polled task
StepYield ==
    /\ InTask("yield")
    /\ LET f == fut[index]
           y == YieldPoll(f.ready)
       IN /\ IF y.result = "Ready"
             THEN /\ fut' = [fut EXCEPT ![index] = Advance(f)]
                  /\ pc' = pc
             ELSE /\ fut' = [fut EXCEPT ![index] = [f EXCEPT !.ready = y.ready]]
                  /\ pc' = "pending"
          /\ IF y.wake
             THEN /\ woken' = Woke(index, tasks, woken)
                  /\ \E o \in WakeByRef(index, tasks, ready_mask) : ready_mask' = o.mask
             ELSE UNCHANGED << ready_mask, woken >>
    /\ UNCHANGED << tasks, current_task, index, acc, env_executor, now, ext, pass >>
    /\ UNCHANGED << out, mbox, reqs, posted, taken, lost, last_post, last_poll >>
    /\ UNCHANGED constVars

\* the task body's result is written to its output
StepRet ==
    /\ InTask("ret")
    /\ out' = [out EXCEPT ![index] = Append(@, Op(index)[2])]
    /\ fut' = [fut EXCEPT ![index] = Advance(@)]
    /\ UNCHANGED pc
    /\ UNCHANGED execVars
    /\ UNCHANGED << now, ext, mbox, reqs, posted, taken, lost, last_post, last_poll >>
    /\ UNCHANGED << woken, pass >>
    /\ UNCHANGED constVars

\* m.try_read() in a task body: Ok(Some(v)) is recorded as v, Ok(None) as
\* "None", the error by its name
StepTryRead ==
    /\ InTask("try_read")
    /\ LET m == Op(index)[2]
           r == SyncTryRead(mbox[m])
       IN /\ mbox' = [mbox EXCEPT ![m] = r.mb]
          /\ out' = [out EXCEPT ![index] =
                        Append(@, IF r.err # "" THEN r.err
                                  ELSE UnwrapOr(r.result, "None"))]
          /\ taken' = [taken EXCEPT ![m] = @ + (IF IsSome(r.result) THEN 1 ELSE 0)]
    /\ fut' = [fut EXCEPT ![index] = Advance(@)]
    /\ UNCHANGED pc
    /\ UNCHANGED execVars
    /\ UNCHANGED << now, ext, reqs, posted, lost, last_post, last_poll >>
    /\ UNCHANGED << woken, pass >>
    /\ UNCHANGED constVars

\* select! over m.read() and sleep(d): both futures are created, sleep(d)
\* reading the clock.  fut.rd is the state of the read: "new" before its
\* first poll, "checked" between the AlreadyWaiting check and the poll of
\* the MailboxFuture, "fut" while the MailboxFuture is pending, "done"
\* once it has returned Ready.
StepSelectCreate ==
    /\ InTask("select")
    /\ fut[index].stage = "init"
    /\ IF ~env_executor
       THEN pc' = "abort" /\ UNCHANGED fut
       ELSE LET d == Op(index)[3]
                s == [wake_at_tick |-> SleepDeadline(now, d), done |-> FALSE,
                      start |-> now, dur |-> d]
            IN /\ fut' = [fut EXCEPT ![index] = [@ EXCEPT !.sleeps = <<s>>, !.stage = "sel"]]
               /\ UNCHANGED pc
    /\ UNCHANGED execVars
    /\ UNCHANGED << now, ext, out, mbox, reqs, posted, taken, lost, last_post, last_poll >>
    /\ UNCHANGED << woken, pass >>
    /\ UNCHANGED constVars

\* The future of the polled task after a branch of its select! returned
\* Pending, and whether the select! returns Pending with it.
SelectPending(f, branch) ==
    IF f.polled \cup {branch} = {"read", "sleep"}
    THEN [fut |-> [f EXCEPT !.polled = {}], pending |-> TRUE]
    ELSE [fut |-> [f EXCEPT !.polled = @ \cup {branch}], pending |-> FALSE]

\* the read branch of the select!: the AlreadyWaiting check on the first
\* poll of m.read(), then MailboxFuture::poll
StepSelectRead ==
    /\ InTask("select")
    /\ fut[index].stage = "sel"
    /\ "read" \notin fut[index].polled
    /\ LET m == Op(index)[2]
           f == fut[index]
       IN IF f.rd = "new"
          THEN LET r == ReadCheck(m, mbox[m]) IN
               /\ mbox' = [mbox EXCEPT ![m] = r.mb]
               /\ IF r.err # ""
                  THEN /\ out' = [out EXCEPT ![index] = Append(@, r.err)]
                       /\ fut' = [fut EXCEPT ![index] = Advance(@)]
                  ELSE /\ fut' = [fut EXCEPT ![index] = [f EXCEPT !.rd = "checked"]]
                       /\ UNCHANGED out
               /\ UNCHANGED << pc, taken, last_poll >>
          ELSE LET r == FuturePoll(m, mbox[m], index) IN
               /\ mbox' = [mbox EXCEPT ![m] = r.mb]
               /\ last_poll' = [mbox |-> m, value |-> mbox[m].value,
                                waker |-> mbox[m].waker, result |-> r.result,
                                slot |-> index, seq |-> 1 - last_poll.seq]
               /\ IF IsSome(r.result)
                  THEN /\ out' = [out EXCEPT ![index] = Append(@, Unwrap(r.result))]
                       /\ taken' = [taken EXCEPT ![m] = @ + 1]
                       /\ fut' = [fut EXCEPT ![index] =
                                    [f EXCEPT !.rd = "done", !.stage = "drop"]]
                       /\ UNCHANGED pc
                  ELSE LET p == SelectPending([f EXCEPT !.rd = "fut"], "read") IN
                       /\ fut' = [fut EXCEPT ![index] = p.fut]
                       /\ pc' = IF p.pending THEN "pending" ELSE pc
                       /\ UNCHANGED << out, taken >>
    /\ UNCHANGED execVars
    /\ UNCHANGED << now, ext, reqs, posted, lost, last_post >>
    /\ UNCHANGED << woken, pass >>
    /\ UNCHANGED constVars

\* the sleep branch of the select!: Sleep::poll, through executor.rs
\* request_wakeup; when the sleep is over the select! returns a timeout
StepSelectSleep ==
    /\ InTask("select")
    /\ fut[index].stage = "sel"
    /\ "sleep" \notin fut[index].polled
    /\ fut[index].rd # "checked"
    /\ LET f == fut[index]
           s == f.sleeps[1]
           over == SleepIsOver(now, s.wake_at_tick)
       IN IF over
          THEN /\ out' = [out EXCEPT ![index] = Append(@, "Timeout")]
               /\ fut' = [fut EXCEPT ![index] = [f EXCEPT !.stage = "drop"]]
               /\ UNCHANGED << pc, tasks, reqs >>
          ELSE IF ~env_executor \/ current_task \notin Slots \/ tasks[current_task] = None
          THEN /\ pc' = "abort"
               /\ UNCHANGED << fut, out, tasks, reqs >>
          ELSE LET p == SelectPending(f, "sleep") IN
               /\ tasks' = [tasks EXCEPT ![current_task] =
                               Some(SetSleepUntil(Unwrap(@), s.wake_at_tick))]
               /\ reqs' = reqs \cup {s.wake_at_tick}
               /\ fut' = [fut EXCEPT ![index] = p.fut]
               /\ pc' = IF p.pending THEN "pending" ELSE pc
               /\ UNCHANGED out
    /\ UNCHANGED << ready_mask, current_task, index, acc, env_executor, now, ext >>
    /\ UNCHANGED << mbox, posted, taken, lost, last_post, last_poll >>
    /\ UNCHANGED << woken, pass >>
    /\ UNCHANGED constVars

\* The select! has returned: its futures are dropped.  The MailboxFuture
\* exists once the read has passed the AlreadyWaiting check.
StepSelectDrop ==
    /\ InTask("select")
    /\ fut[index].stage = "drop"
    /\ LET m == Op(index)[2] IN
       mbox' = [mbox EXCEPT ![m] = IF fut[index].rd = "new" THEN @ ELSE FutureDrop(m, @)]
    /\ fut' = [fut EXCEPT ![index] = Advance(@)]
    /\ UNCHANGED pc
    /\ UNCHANGED execVars
    /\ UNCHANGED << now, ext, out, reqs, posted, taken, lost, last_post, last_poll >>
    /\ UNCHANGED << woken, pass >>
    /\ UNCHANGED constVars

\* ------------------------------------------------------------ environment
\* Some Sleep future still waits for a tick after the clock's reading.
SleepOutstanding ==
    \E i \in Slots : \E j \in 1 .. Len(fut[i].sleeps) :
        ~fut[i].sleeps[j].done /\ fut[i].sleeps[j].wake_at_tick > now

\* The thread of the executor is about to read the clock or is in the
\* idle wait.
ClockObserved ==
    \/ pc = "wait"
    \/ pc = "check" /\ IsSome(tasks[index]) /\ IsSome(Unwrap(tasks[index]).sleep_until)
    \/ InTask("sleep")
    \/ InTask("select")

\* Environment::ticks is monotonic: the clock has advanced, by any amount,
\* whenever it is read.
Tick ==
    /\ Running
    /\ ClockObserved
    /\ now < MaxTick \/ SleepOutstanding
    /\ now' = now + 1
    /\ UNCHANGED pc
    /\ UNCHANGED execVars
    /\ UNCHANGED ext
    /\ UNCHANGED taskVars
    /\ UNCHANGED << woken, pass >>
    /\ UNCHANGED constVars

\* Another execution context wakes the handle of slot j that it holds.
ExternalWake(j) ==
    /\ Running
    /\ ext.wakes < MaxExtWakes
    /\ ext' = [ext EXCEPT !.wakes = @ + 1]
    /\ woken' = Woke(j, tasks, woken)
    /\ \E o \in WakeByRef(j, tasks, ready_mask) :
          /\ ready_mask' = o.mask
          /\ pc' = IF o.abort THEN "abort" ELSE pc
    /\ UNCHANGED << tasks, current_task, index, acc, env_executor, now, pass >>
    /\ UNCHANGED taskVars
    /\ UNCHANGED constVars

\* Some task body reads the mailbox the second execution context posts to.
SharesMx == \E i \in Slots : "mx" \in UsedBy(progs[i])

\* Another execution context posts to the sync mailbox mx: the critical
\* section of sync::Mailbox::post.
ExtPost ==
    /\ Running
    /\ SharesMx
    /\ ext.pc = "idle"
    /\ ext.posts < MaxExtPosts
    /\ LET v == ExtValue(ext.posts + 1)
           r == SyncPostCS(mbox["mx"], v)
       IN
       /\ mbox' = [mbox EXCEPT !["mx"] = r.mb]
       /\ CountPost("mx", v, r)
       /\ ext' = [ext EXCEPT !.pc = IF IsSome(r.waker) THEN "wake" ELSE "idle",
                              !.waker = r.waker, !.posts = @ + 1]
    /\ UNCHANGED pc
    /\ UNCHANGED execVars
    /\ UNCHANGED << now, fut, out, reqs, taken, last_poll >>
    /\ UNCHANGED << woken, pass >>
    /\ UNCHANGED constVars

\* ... and, after the critical section, wakes the waker it took.
ExtPostWake ==
    /\ Running
    /\ ext.pc = "wake"
    /\ ext' = [ext EXCEPT !.pc = "idle", !.waker = None]
    /\ woken' = Woke(Unwrap(ext.waker), tasks, woken)
    /\ \E o \in WakeByRef(Unwrap(ext.waker), tasks, ready_mask) :
          /\ ready_mask' = o.mask
          /\ pc' = IF o.abort THEN "abort" ELSE pc
    /\ UNCHANGED << tasks, current_task, index, acc, env_executor, now, pass >>
    /\ UNCHANGED taskVars
    /\ UNCHANGED constVars

\* ------------------------------------------------------------ specification
TaskStep ==
    \/ StepPost
    \/ StepPostWake
    \/ StepReadCheck
    \/ StepReadPoll
    \/ StepReadDrop
    \/ StepSleepCreate
    \/ StepSleepPoll
    \/ StepYield
    \/ StepRet

ExecutorStep ==
    \/ Run
    \/ EnterPass
    \/ RunTaskCheck
    \/ RunTaskReturn
    \/ RunOnceReturn
    \/ WaitReturn

Next ==
    \/ ExecutorStep
    \/ TaskStep
    \/ WaitReturnEarly
    \/ Tick
    \/ \E j \in Slots : ExternalWake(j)
    \/ ExtPost
    \/ ExtPostWake

Spec == Init /\ [][Next]_vars

\* The mailbox scenarios: tasks that read, try to read, abandon a read and
\* post, and the second execution context posting to mx.  The thread of the
\* executor keeps running and the clock keeps advancing; the second
\* execution context may stop at any time.
MailboxTaskStep ==
    \/ StepPost
    \/ StepPostWake
    \/ StepReadCheck
    \/ StepReadPoll
    \/ StepReadDrop
    \/ StepTryRead
    \/ StepSelectCreate
    \/ StepSelectRead
    \/ StepSelectSleep
    \/ StepSelectDrop

NextMailbox ==
    \/ ExecutorStep
    \/ MailboxTaskStep
    \/ WaitReturnEarly
    \/ Tick
    \/ ExtPost
    \/ ExtPostWake

MailboxSpec ==
    /\ InitMailbox
    /\ [][NextMailbox]_vars
    /\ WF_vars(ExecutorStep \/ MailboxTaskStep)
    /\ SF_vars(Tick)


\* The run loop with the clock, and no second execution context.  The thread
\* of the executor keeps running, and the clock keeps advancing: it is not
\* stopped by the executor leaving the places where it reads it.
NextLive ==
    \/ ExecutorStep
    \/ TaskStep
    \/ WaitReturnEarly
    \/ Tick

LiveSpec ==
    /\ Init
    /\ [][NextLive]_vars
    /\ WF_vars(ExecutorStep \/ TaskStep)
    /\ SF_vars(Tick)

\* ------------------------------------------------------------ registration
\* The registration of the executor with the environment, seen from tasks
\* that sleep, yield and start an executor of their own, and from the
\* thread that calls run, which calls the free functions sleep, yield_now
\* and now before it calls run and after run has returned.  The
\* environment has been set (test_utils setup).
InitScope ==
    /\ InitExecutor(ScopePrograms)
    /\ mkind = "local"
    /\ wk = NoWk
    /\ tm = NoTm
    /\ ev = NoEv
    /\ call = NoCall

\* A task calls run on an executor of its own: run_once of that executor
\* registers it (Enter::new), runs its pass, and the guard unregisters
\* (leave_executor) whatever is registered.
StepNestedRun ==
    /\ InTask("run")
    /\ IF EnterExecutor(env_executor).abort
       THEN pc' = "abort" /\ UNCHANGED << env_executor, fut >>
       ELSE /\ env_executor' = FALSE
            /\ fut' = [fut EXCEPT ![index] = Advance(@)]
            /\ UNCHANGED pc
    /\ UNCHANGED << tasks, ready_mask, current_task, index, acc >>
    /\ UNCHANGED << now, ext, out, mbox, reqs, posted, taken, lost, last_post, last_poll >>
    /\ UNCHANGED << woken, pass >>
    /\ UNCHANGED constVars

\* The thread is not inside run_once: before run, or after run returned.
OutsideRun == pc \in {"new", "done"}

\* executor.rs sleep(duration), lines 219-224
SleepCall(registered) == IF registered THEN "value" ELSE "abort"
\* executor.rs yield_now(), lines 214-216
YieldNowCall(registered) == "value"
\* executor.rs now(), lines 227-229
NowCall(registered) == "value"

Called(fn, outcome) ==
    /\ call' = [fn |-> fn, registered |-> env_executor, outcome |-> outcome]
    /\ pc' = IF outcome = "abort" THEN "abort" ELSE pc
    /\ UNCHANGED << tasks, ready_mask, current_task, index, acc, env_executor, now, ext >>
    /\ UNCHANGED taskVars
    /\ UNCHANGED << woken, pass >>
    /\ UNCHANGED << progs, mkind, wk, tm, ev >>

CallSleep ==
    /\ OutsideRun
    /\ call.fn # "sleep"
    /\ Called("sleep", SleepCall(env_executor))

CallYieldNow ==
    /\ OutsideRun
    /\ call.fn # "yield_now"
    /\ Called("yield_now", YieldNowCall(env_executor))

CallNow ==
    /\ OutsideRun
    /\ call.fn # "now"
    /\ Called("now", NowCall(env_executor))

ScopeTaskStep ==
    \/ StepSleepCreate
    \/ StepSleepPoll
    \/ StepYield
    \/ StepRet
    \/ StepNestedRun

NextScope ==
    \/ ExecutorStep
    \/ ScopeTaskStep
    \/ WaitReturnEarly
    \/ Tick
    \/ CallSleep
    \/ CallYieldNow
    \/ CallNow

ScopeSpec == InitScope /\ [][NextScope]_vars

\* ------------------------------------------------------------ time.rs alone
\* Instant and Duration are i64 tick counts, and their operators are the
\* operators of i64.  A result outside the range of i64 panics in a build
\* with overflow checks and wraps around in a build without; a division
\* by zero, and the division of MIN by -1, panic in every build.
I64Modulus == InstantMax - InstantMin + 1
InI64(x) == InstantMin <= x /\ x <= InstantMax
WrapI64(x) == ((x - InstantMin) % I64Modulus) + InstantMin

Val(x) == [panic |-> FALSE, v |-> x]
Panic == [panic |-> TRUE, v |-> 0]

\* the result of an operator whose exact result is x
I64Result(build, x) ==
    IF InI64(x) THEN Val(x)
    ELSE IF build = "checked" THEN Panic ELSE Val(WrapI64(x))

Abs(x) == IF x < 0 THEN -x ELSE x
\* i64 division rounds towards zero
TruncDiv(x, k) ==
    IF (x < 0) # (k < 0) THEN -(Abs(x) \div Abs(k)) ELSE Abs(x) \div Abs(k)

\* impl Add<Duration> for Instant, impl Add for Duration
TicksAdd(build, x, y) ==
    IF x.panic \/ y.panic THEN Panic ELSE I64Result(build, x.v + y.v)
\* impl Sub for Instant, impl Sub for Duration
TicksSub(build, x, y) ==
    IF x.panic \/ y.panic THEN Panic ELSE I64Result(build, x.v - y.v)
\* impl Mul<i64> for Duration
TicksMul(build, x, k) ==
    IF x.panic THEN Panic ELSE I64Result(build, x.v * k)
\* impl Div<i64> for Duration
TicksDiv(build, x, k) ==
    IF x.panic \/ k = 0 \/ (x.v = InstantMin /\ k = -1) THEN Panic
    ELSE Val(TruncDiv(x.v, k))
\* derive(PartialOrd, Ord) on Instant(i64)
InstantLe(x, y) == x <= y

\* The operands: the ends of the range, their neighbours, and the values
\* of the tests of time.rs.
TimeValues == {InstantMin, InstantMin + 1, -5, 0, 5, 10, InstantMax}
TimeFactors == {-2, -1, 1, 2, 3}

InitTime ==
    /\ InitExecutor({PostAndRead})
    /\ mkind = "local"
    /\ wk = NoWk
    /\ tm \in { [pc |-> "run", build |-> bd, a |-> a, b |-> b, d |-> d, e |-> e, k |-> k,
                 expr |-> "", res |-> Val(0), neg |-> Val(0), le |-> FALSE] :
                   bd \in {"checked", "wrapping"},
                   a \in TimeValues, b \in TimeValues,
                   d \in TimeValues, e \in TimeValues, k \in TimeFactors }
    /\ ev = NoEv
    /\ call = NoCall

Evaluated(expr, res) ==
    /\ tm' = [tm EXCEPT !.expr = expr, !.res = res]
    /\ UNCHANGED << wk, ev, call >>
    /\ UNCHANGED executorVars

\* (a + d) - a
TmAddSub ==
    /\ tm.pc = "run"
    /\ tm.expr = ""
    /\ Evaluated("add_sub", TicksSub(tm.build, TicksAdd(tm.build, Val(tm.a), Val(tm.d)), Val(tm.a)))

\* b + (a - b)
TmSubAdd ==
    /\ tm.pc = "run"
    /\ tm.expr = ""
    /\ Evaluated("sub_add", TicksAdd(tm.build, Val(tm.b), TicksSub(tm.build, Val(tm.a), Val(tm.b))))

\* a - b and b - a
TmSubSub ==
    /\ tm.pc = "run"
    /\ tm.expr = ""
    /\ tm' = [tm EXCEPT !.expr = "sub_sub",
                        !.res = TicksSub(tm.build, Val(tm.a), Val(tm.b)),
                        !.neg = TicksSub(tm.build, Val(tm.b), Val(tm.a))]
    /\ UNCHANGED << wk, ev, call >>
    /\ UNCHANGED executorVars

\* (d + e) - e
TmDurAddSub ==
    /\ tm.pc = "run"
    /\ tm.expr = ""
    /\ Evaluated("dur_add_sub", TicksSub(tm.build, TicksAdd(tm.build, Val(tm.d), Val(tm.e)), Val(tm.e)))

\* (d * k) / k
TmMulDiv ==
    /\ tm.pc = "run"
    /\ tm.expr = ""
    /\ Evaluated("mul_div", TicksDiv(tm.build, TicksMul(tm.build, Val(tm.d), tm.k), tm.k))

\* a <= b, Instant::MIN <= a, a <= Instant::MAX
TmCompare ==
    /\ tm.pc = "run"
    /\ tm.expr = ""
    /\ tm' = [tm EXCEPT !.expr = "compare",
                        !.le = InstantLe(tm.a, tm.b),
                        !.res = Val(IF InstantLe(InstantMin, tm.a) /\ InstantLe(tm.a, InstantMax)
                                    THEN 1 ELSE 0)]
    /\ UNCHANGED << wk, ev, call >>
    /\ UNCHANGED executorVars

NextTime ==
    \/ TmAddSub
    \/ TmSubAdd
    \/ TmSubSub
    \/ TmDurAddSub
    \/ TmMulDiv
    \/ TmCompare

TimeSpec == InitTime /\ [][NextTime]_vars

\* ------------------------------------------------------------ waker.rs alone
\* WakerInfo used as in waker.rs test_waker and test_waker_error: a mask that
\* has bits set already, handles built on it for task indices of the whole
\* range of usize, and two execution contexts that call is_task_runnable
\* and wake_task on the handles one atomic operation at a time.
\*
\* default_mask of the tests (1 | 1 << 2 | 1 << 7), the empty mask, and a
\* mask with bit 1 set
DefaultMask == 133
WkMasks == {0, 2, DefaultMask}
\* Task indices: below the width of the mask, at it and above it, and
\* indices of a 64-bit usize whose low 32 bits are 0, 1, 5 and 32.  Index
\* 31 is left out: 1 << 31 is beyond the integers of the model checker.
WkIndices ==
    {0, 1, 5, 30, MaskBits, MaskBits + 1,
     U32Modulus, U32Modulus + 1, U32Modulus + 5, U32Modulus + MaskBits}

\* The indices of the slots of an executor that runs: LocalExecutor::run
\* unwraps the handle of every index from 0 on, so it gets past index 31
\* with none.
SlotIndices == {0, 1, 5, 30}

NoWkOp == [op |-> "", idx |-> 0, err |-> "", task_mask |-> 0, ret |-> FALSE, before |-> 0]

\* The scenario with the handles built for indices drawn from I.
InitWakerWith(I) ==
    /\ InitExecutor({PostAndRead})
    /\ mkind = "local"
    /\ wk \in { [pc |-> "run", indices |-> I, mask |-> m, handles |-> {},
                 pending |-> {}, ops |-> 0, last |-> NoWkOp] : m \in WkMasks }
    /\ tm = NoTm
    /\ ev = NoEv
    /\ call = NoCall

InitWaker == InitWakerWith(WkIndices)
InitWakerSlots == InitWakerWith(SlotIndices)

\* WakerInfo::new(task_idx, &mask)
WkNew ==
    /\ wk.pc = "run"
    /\ Cardinality(wk.handles) < MaxHandles
    /\ \E i \in wk.indices :
          LET r == WakerInfoNew(i, wk.mask) IN
          IF r.err # ""
          THEN wk' = [wk EXCEPT !.last = [NoWkOp EXCEPT !.op = "new", !.idx = i,
                                                       !.err = r.err, !.before = wk.mask],
                                !.mask = r.mask]
          ELSE /\ \A h \in wk.handles : h.idx # i
               /\ wk' = [wk EXCEPT !.last = [NoWkOp EXCEPT !.op = "new", !.idx = i,
                                                          !.task_mask = r.waker.task_mask,
                                                          !.before = wk.mask],
                                   !.mask = r.mask,
                                   !.handles = @ \cup {[idx |-> i, task_mask |-> r.waker.task_mask]},
                                   !.pending = @ \cup {i}]
    /\ UNCHANGED << tm, ev, call >>
    /\ UNCHANGED executorVars

\* The context of the executor calls is_task_runnable on a handle.
WkTake ==
    /\ wk.pc = "run"
    /\ wk.ops < MaxWakerOps
    /\ \E h \in wk.handles :
          LET t == IsTaskRunnable(h, wk.mask) IN
          wk' = [wk EXCEPT !.last = [NoWkOp EXCEPT !.op = "take", !.idx = h.idx,
                                                  !.task_mask = h.task_mask,
                                                  !.ret = t.runnable, !.before = wk.mask],
                           !.mask = t.mask,
                           !.pending = @ \ {h.idx},
                           !.ops = @ + 1]
    /\ UNCHANGED << tm, ev, call >>
    /\ UNCHANGED executorVars

\* Another execution context calls wake_task on a handle.
WkWake ==
    /\ wk.pc = "run"
    /\ wk.ops < MaxWakerOps
    /\ \E h \in wk.handles :
          wk' = [wk EXCEPT !.last = [NoWkOp EXCEPT !.op = "wake", !.idx = h.idx,
                                                  !.task_mask = h.task_mask,
                                                  !.before = wk.mask],
                           !.mask = WakeTask(h, wk.mask),
                           !.pending = @ \cup {h.idx},
                           !.ops = @ + 1]
    /\ UNCHANGED << tm, ev, call >>
    /\ UNCHANGED executorVars

NextWaker ==
    \/ WkNew
    \/ WkTake
    \/ WkWake

WakerSpec == InitWaker /\ [][NextWaker]_vars
\* The handles of the slots of one executor, used by its own context and by
\* another one.
WakerRaceSpec == InitWakerSlots /\ [][NextWaker]_vars

\* The whole system, second execution context included, with the thread of
\* the executor running on and the clock advancing.
FairSpec ==
    /\ Init
    /\ [][Next]_vars
    /\ WF_vars(ExecutorStep \/ TaskStep)
    /\ SF_vars(Tick)

\* ------------------------------------------------------------ event.rs
\* Event under the polling executor of lib.rs, as in the tests of event.rs:
\* block_on polls the future again and again until it is Ready; the ticker
\* hands out the next tick at every read.  ev.scen is the program:
\* "joined" is wait_for_event (join! of a task that sleeps and signals, and
\* a task that waits), "already" is event_already_signaled.

\* event.rs:67, the duration of the sleep in wait_for_event
EventSleepTicks == 200
EventDurations == {2, 5, EventSleepTicks}
EventStartTicks == {0, 1, 7}

\* Event::new, lines 12-16
EventNew == FALSE
\* Event::signal, lines 18-20
EventSignal(signaled) == TRUE
\* Event::is_ready, lines 22-24
EventIsReady(signaled) == signaled

\* Mutant of EventFuturePoll: the wait never sees the signal.
EventFuturePollNever(signaled) == "Pending"

\* EventFuture::poll, lines 45-51
EventFuturePoll(signaled) == IF EventIsReady(signaled) THEN "Ready" ELSE "Pending"

\* u32 addition: a panic with overflow checks, the wrapped sum without
U32Add(build, x, y) ==
    IF x + y < U32Modulus THEN Val(x + y)
    ELSE IF build = "checked" THEN Panic ELSE Val((x + y) % U32Modulus)

\* Ticker::get_ticks, lines 16-20: the tick read, and the ticker after it
GetTicks(build, ticks) == [read |-> ticks, next |-> U32Add(build, ticks, 1)]

\* lib.rs Sleep::poll, lines 88-94, on the tick that was read
SleepReady(read, wake_at_tick) == read >= wake_at_tick

NoWaitPoll == [polled |-> FALSE, signaled |-> FALSE, result |-> ""]

InitEvent ==
    /\ InitExecutor({PostAndRead})
    /\ mkind = "local"
    /\ wk = NoWk
    /\ tm = NoTm
    /\ call = NoCall
    /\ ev \in { [pc |-> "run", scen |-> sc, build |-> bd, dur |-> d,
                 signaled |-> EventNew, ticks |-> t,
                 a |-> "start", wake_at_tick |-> 0, b |-> "start", turn |-> "A",
                 ra |-> 0, rb |-> 0, result |-> << >>,
                 polls |-> 0, last |-> NoWaitPoll] :
                   sc \in {"joined", "already"}, bd \in {"checked", "wrapping"},
                   d \in EventDurations, t \in EventStartTicks }

EvUnchanged ==
    /\ UNCHANGED << wk, tm, call >>
    /\ UNCHANGED executorVars

\* join! polls its first future: Executor::sleep(d).await, then
\* assert!(!event.is_ready()); event.signal(); 10
EvPollFirst ==
    /\ ev.pc = "run"
    /\ ev.scen = "joined"
    /\ ev.turn = "A"
    /\ IF ev.a = "done"
       THEN ev' = [ev EXCEPT !.turn = "B"]
       ELSE LET made == GetTicks(ev.build, ev.ticks)
                wake == IF ev.a = "start"
                        THEN U32Add(ev.build, made.read, ev.dur)
                        ELSE Val(ev.wake_at_tick)
                t1 == IF ev.a = "start" THEN made.next ELSE Val(ev.ticks)
            IN IF wake.panic \/ t1.panic
               THEN ev' = [ev EXCEPT !.pc = "abort"]
               ELSE LET polled == GetTicks(ev.build, t1.v)
                    IN IF polled.next.panic
                       THEN ev' = [ev EXCEPT !.pc = "abort"]
                       ELSE IF ~SleepReady(polled.read, wake.v)
                       THEN ev' = [ev EXCEPT !.a = "sleep", !.wake_at_tick = wake.v,
                                             !.ticks = polled.next.v, !.turn = "B"]
                       ELSE IF EventIsReady(ev.signaled)
                       THEN ev' = [ev EXCEPT !.pc = "abort", !.ticks = polled.next.v]
                       ELSE ev' = [ev EXCEPT !.a = "done", !.ra = 10,
                                             !.signaled = EventSignal(ev.signaled),
                                             !.ticks = polled.next.v, !.turn = "B"]
    /\ EvUnchanged

\* the poll of event.wait()
WaitPolled(e) ==
    [e EXCEPT !.polls = e.polls + 1,
              !.last = [polled |-> TRUE, signaled |-> e.signaled,
                        result |-> EventFuturePoll(e.signaled)],
              !.b = IF EventFuturePoll(e.signaled) = "Ready" THEN "done" ELSE "wait"]

\* join! polls its second future: assert!(!event.is_ready());
\* event.wait().await; 20
EvPollSecond ==
    /\ ev.pc = "run"
    /\ ev.scen = "joined"
    /\ ev.turn = "B"
    /\ IF ev.b = "done"
       THEN ev' = [ev EXCEPT !.turn = "ret"]
       ELSE IF ev.b = "start" /\ EventIsReady(ev.signaled)
       THEN ev' = [ev EXCEPT !.pc = "abort"]
       ELSE LET w == WaitPolled(ev)
            IN ev' = [w EXCEPT !.rb = IF w.b = "done" THEN 20 ELSE 0, !.turn = "ret"]
    /\ EvUnchanged

\* join! is Ready with both results when both futures are done; run_until,
\* lines 60-65, returns the result or polls again
EvJoinReturn ==
    /\ ev.pc = "run"
    /\ ev.scen = "joined"
    /\ ev.turn = "ret"
    /\ IF ev.a = "done" /\ ev.b = "done"
       THEN ev' = [ev EXCEPT !.pc = "done", !.result = << ev.ra, ev.rb >>]
       ELSE ev' = [ev EXCEPT !.turn = "A"]
    /\ EvUnchanged

\* event_already_signaled: event.signal()
EvAlreadySignal ==
    /\ ev.pc = "run"
    /\ ev.scen = "already"
    /\ ev.a = "start"
    /\ ev' = [ev EXCEPT !.a = "done", !.signaled = EventSignal(ev.signaled)]
    /\ EvUnchanged

\* event_already_signaled: event.wait().await; 42, and run_until on it
EvAlreadyWait ==
    /\ ev.pc = "run"
    /\ ev.scen = "already"
    /\ ev.a = "done"
    /\ LET w == WaitPolled(ev)
       IN IF w.b = "done"
          THEN ev' = [w EXCEPT !.pc = "done", !.result = << 42 >>]
          ELSE ev' = w
    /\ EvUnchanged

NextEvent ==
    \/ EvPollFirst
    \/ EvPollSecond
    \/ EvJoinReturn
    \/ EvAlreadySignal
    \/ EvAlreadyWait

\* run_until never stops polling before the future is Ready
EventSpec ==
    /\ InitEvent
    /\ [][NextEvent]_vars
    /\ WF_vars(NextEvent)

\* ------------------------------------------------------------ properties
BitOf(i) == BitAnd(ready_mask, Pow2(i)) # 0
AllFinished == pc # "new" /\ \A i \in Slots : tasks[i] = None

\* C1: on the handle of an occupied slot, is_task_runnable returns true
\* exactly when the handle was built or wake_task was called since the
\* previous is_task_runnable, and it clears the bit, so that a second call
\* in a row returns false.
WakeCorrectness ==
    \A i \in Slots :
        IsSome(tasks[i]) =>
            LET w == Unwrap(tasks[i]).waker
                t == IsTaskRunnable(w, ready_mask)
            IN /\ t.runnable = woken[i]
               /\ ~IsTaskRunnable(w, t.mask).runnable

\* The executor is about to take the bit of a task that it has polled
\* before and that was woken since.
WakeCorrectnessWitness ==
    /\ pc = "check"
    /\ IsSome(tasks[index])
    /\ woken[index]
    /\ fut[index] # InitFut

\* C2: run returns only when every slot is empty, never idles once every
\* slot is empty, and returns once every slot is empty.
RunReturnsWhenAllFinished ==
    /\ [](pc = "done" => AllFinished)
    /\ [](pc = "wait" => ~AllFinished)
    /\ AllFinished ~> (pc = "done")

RunReturnsWitness == pc = "done" /\ \A i \in Slots : tasks[i] = None /\ Finished(i)

\* C3: the task that posts 42 to m1 and reads m2 and the task that reads
\* m1 and posts "hello" to m2, in either slot order, run to completion
\* with "hello" and 42 read.
MailboxRendezvous ==
    \A a, b \in Slots :
        (progs[a] = PostAndRead /\ progs[b] = ReadAndPost) =>
            <>(pc = "done" /\ out[a] = <<"hello">> /\ out[b] = <<"42">>)

MailboxRendezvousWitness ==
    \E a, b \in Slots :
        /\ progs[a] = PostAndRead /\ progs[b] = ReadAndPost
        /\ pc = "done" /\ out[a] = <<"hello">> /\ out[b] = <<"42">>

\* C4: the slot of a task whose computation has returned Ready is emptied
\* when that poll returns, and no poll begins on an empty slot or on a
\* finished computation, whatever the ready mask holds.
NeverPolledAfterReady ==
    /\ [](\A i \in Slots :
            (pc # "abort" /\ Finished(i) /\ IsSome(tasks[i])) => (pc = "poll" /\ index = i))
    /\ [][(pc = "check" /\ pc' = "poll") =>
            (IsSome(tasks[index]) /\ ~Finished(index))]_vars

\* The pass examines an empty slot whose ready bit a stale wake has set.
StaleWakeWitness ==
    /\ pc = "check"
    /\ tasks[index] = None
    /\ Finished(index)
    /\ BitOf(index)

\* The step in which the k-th Sleep of the polled task returns Ready.
SleepReturnsReady ==
    /\ InTask("sleep")
    /\ fut[index].stage = "poll"
    /\ \/ fut'[index].ip > fut[index].ip
       \/ fut'[index].stage = "poll" /\ fut'[index].sleeps[fut[index].k].done

\* C5: a Sleep returns Ready only when the clock is at or past the reading
\* at which sleep(d) was called plus d.
SleepNeverEarly ==
    [][SleepReturnsReady =>
         LET s == fut[index].sleeps[fut[index].k]
         IN now - s.start >= s.dur]_vars

\* A sleeping task that was also woken from outside has finished a sleep.
SleepNeverEarlyWitness ==
    \E i \in Slots :
        /\ progs[i] = SleepAndWake
        /\ fut[i].ip > 1
        /\ ext.wakes > 0


\* C6: with the clock advancing and the idle wait returning at the
\* deadline at the latest, every task that awaits sleeps completes; the
\* task that sleeps SleepTicks ticks Loops times and returns 42 completes
\* with 42, the clock having advanced by at least Loops * SleepTicks.
SleepLoopCompletes ==
    \A i \in Slots :
        /\ progs[i] = JoinedSleeps => <>(tasks[i] = None /\ Finished(i))
        /\ progs[i] = SleepAndWake =>
              <>(/\ tasks[i] = None /\ Finished(i)
                 /\ out[i] = <<"42">>
                 /\ now >= Loops * SleepTicks)

SleepLoopCompletesWitness ==
    \E i \in Slots :
        /\ progs[i] = SleepAndWake
        /\ tasks[i] = None /\ Finished(i)
        /\ out[i] = <<"42">>
        /\ now >= Loops * SleepTicks

\* C7: during a poll the slot's sleep-until is the earliest of the
\* deadlines requested so far in that poll, and none when none was
\* requested.
EarliestDeadlineWins ==
    (pc \in {"poll", "pending"} /\ IsSome(tasks[index])) =>
        Unwrap(tasks[index]).sleep_until =
            (IF reqs = {} THEN None ELSE Some(MinOf(reqs)))

\* Two different deadlines have been requested in one poll.
EarliestDeadlineWitness ==
    /\ pc \in {"poll", "pending"}
    /\ IsSome(tasks[index])
    /\ Cardinality(reqs) >= 2
    /\ Unwrap(tasks[index]).sleep_until = Some(MinOf(reqs))

\* C8: the first poll of a Yield returns Pending and sets the polled
\* slot's ready bit, the second returns Ready; the bit of a task suspended
\* in a Yield stays set until the task is polled again, so the idle wait
\* has to return at once, and the next pass polls the task when it comes
\* to its slot; the task that yields in a loop completes.
YieldRunsAgain ==
    /\ [][InTask("yield") =>
            IF fut[index].ready
            THEN pc' = "poll" /\ fut'[index].ip = fut[index].ip + 1
            ELSE /\ pc' = "pending"
                 /\ fut'[index].ready
                 /\ BitAnd(ready_mask', Pow2(index)) # 0]_vars
    /\ [](\A i \in Slots : (fut[i].ready /\ ~(pc = "poll" /\ index = i)) => BitOf(i))
    /\ [][(pc = "check" /\ fut[index].ready /\ pc' # pc) => pc' = "poll"]_vars
    /\ []((pc = "wait" /\ \E i \in Slots : fut[i].ready) => WaitMustReturn)
    /\ \A i \in Slots :
          progs[i] = YieldAndWake =>
              <>(tasks[i] = None /\ Finished(i) /\ out[i] = <<"42">>)

\* The run loop reaches the idle wait with a task suspended in a Yield.
YieldRunsAgainWitness ==
    /\ pc = "wait"
    /\ \E i \in Slots : fut[i].ready /\ BitOf(i)

\* C9: a post to mailbox m, in either variant, leaves the posted value in
\* the value slot and the waiter slot empty, and returns the value that
\* was in the value slot before.
PostAlwaysSucceeds ==
    [][\A m \in Mailboxes :
          posted'[m] # posted[m] =>
              /\ mbox'[m].value = Some(last_post'[m].value)
              /\ mbox'[m].waker = None
              /\ last_post'[m].ret = mbox[m].value
              /\ last_post'[m].woke = mbox[m].waker]_vars

\* A post has overwritten an unread value, and a post has taken a waiter.
PostAlwaysSucceedsWitness ==
    /\ \E m \in Mailboxes : IsSome(last_post[m].ret)
    /\ \E m \in Mailboxes : IsSome(last_post[m].woke)

\* C10: a poll of a read that finds a value and no waiter registered
\* returns the value posted last, empties the value slot and registers no
\* waiter; every posted value is handed to at most one read.
ReadTakesPostedValue ==
    /\ [][(last_poll' # last_poll /\ IsSome(last_poll'.value) /\ last_poll'.waker = None) =>
            LET m == last_poll'.mbox IN
            /\ last_poll'.result = Some(last_post[m].value)
            /\ out'[index] = Append(out[index], last_post[m].value)
            /\ mbox'[m].value = None
            /\ mbox'[m].waker = None]_vars
    /\ [](\A m \in Mailboxes :
            posted[m] = taken[m] + lost[m] + (IF IsSome(mbox[m].value) THEN 1 ELSE 0))

\* A read has returned the second of two values posted to m1.
ReadTakesPostedValueWitness ==
    /\ last_poll.mbox = "m1"
    /\ last_poll.result = Some("2")
    /\ posted["m1"] >= 2
    /\ taken["m1"] = 1

\* The polled task is at the AlreadyWaiting check of m.read().
AtReadCheck(m) ==
    InTask("read") /\ fut[index].stage = "init" /\ Op(index)[2] = m

OutstandingReads(m) ==
    { i \in Slots :
        /\ ~Finished(i)
        /\ Op(i)[1] \in {"read", "select"}
        /\ Op(i)[2] = m
        /\ \/ Op(i)[1] = "read" /\ fut[i].stage = "fut"
           \/ Op(i)[1] = "select" /\ fut[i].stage = "sel" /\ fut[i].rd \in {"checked", "fut"} }

\* C12: a mailbox never has two outstanding reads at once.
AtMostOneOutstandingRead ==
    \A m \in Mailboxes : Cardinality(OutstandingReads(m)) <= 1

\* The step in which the polled task drops the MailboxFuture of a read of
\* m that was pending: the select! it was a branch of has timed out.
AbandonsRead(m) ==
    /\ InTask("select")
    /\ Op(index)[2] = m
    /\ fut[index].stage = "drop"
    /\ fut[index].rd = "fut"
    /\ fut'[index] # fut[index]

\* Dropping a pending read whose waiter is registered empties the waiter
\* slot of the cross-context mailbox.
SyncDropClearsOwnWaiter ==
    [][\A m \in Mailboxes :
          (KindOf(m) = "sync" /\ AbandonsRead(m) /\ mbox[m].waker = Some(index)) =>
              mbox'[m].waker = None]_vars

\* Dropping a read leaves the registration of another, still pending read
\* of the cross-context mailbox in place.
SyncDropKeepsOtherWaiter ==
    [][\A m \in Mailboxes : \A j \in Slots \ {index} :
          (/\ KindOf(m) = "sync" /\ AbandonsRead(m)
           /\ mbox[m].waker = Some(j) /\ j \in OutstandingReads(m)) =>
              mbox'[m].waker = Some(j)]_vars

\* C13: cross-context mailbox: a pending read that is dropped clears its
\* own waiter registration and never removes the registration of a
\* different, still pending read.
SyncDropClearsOnlyOwnWaiter == SyncDropClearsOwnWaiter /\ SyncDropKeepsOtherWaiter

\* C14: same-context mailbox: a pending read whose waiter is registered and
\* that is dropped leaves the waiter slot empty, and a task that reads a
\* mailbox no other task uses, after it has abandoned a read of it, does
\* not get AlreadyWaiting.
LocalDropClearsWaiter ==
    /\ [][\A m \in Mailboxes :
            (KindOf(m) = "local" /\ AbandonsRead(m) /\ mbox[m].waker = Some(index)) =>
                mbox'[m].waker = None]_vars
    /\ [](\A i \in Slots :
            (/\ mkind = "local" /\ progs[i] = SelectThenRead
             /\ \A j \in Slots \ {i} : "m1" \notin UsedBy(progs[j])) =>
                out[i] # <<"Timeout", "AlreadyWaiting">>)

\* C15: try_read returns within the poll and never changes the waiter
\* slot; with no waiter registered it returns the stored value and empties
\* the value slot, or None when there is no value; with a waiter registered
\* it returns AlreadyWaiting and leaves the mailbox as it was.
TryReadNeverWaits ==
    [][(InTask("try_read") /\ fut'[index] # fut[index]) =>
          LET m == Op(index)[2]
              mb == mbox[m]
          IN /\ pc' = pc
             /\ fut'[index].ip = fut[index].ip + 1
             /\ mbox'[m].waker = mb.waker
             /\ IF IsSome(mb.waker)
                THEN /\ out'[index] = Append(out[index], "AlreadyWaiting")
                     /\ mbox'[m] = mb
                ELSE IF IsSome(mb.value)
                THEN /\ out'[index] = Append(out[index], Unwrap(mb.value))
                     /\ mbox'[m].value = None
                ELSE /\ out'[index] = Append(out[index], "None")
                     /\ mbox'[m] = mb]_vars

\* A task has got AlreadyWaiting from try_read while a reader was
\* registered, and the posted value from its second try_read.
TryReadWitness ==
    \E i \in Slots :
        /\ progs[i] = TryRead
        /\ Finished(i)
        /\ out[i] = <<"AlreadyWaiting", "42">>

\* C16: the step in which a post to a cross-context mailbox stores the
\* value also takes the waiter and wakes nothing; the waiter it took is
\* woken by a later step of the same context, which leaves every mailbox
\* as it is.
WakeOutsideCriticalSection ==
    [][/\ \A m \in Mailboxes :
            (KindOf(m) = "sync" /\ posted'[m] # posted[m]) =>
                /\ mbox'[m] = [value |-> Some(last_post'[m].value), waker |-> None]
                /\ last_post'[m].woke = mbox[m].waker
                /\ ready_mask' = ready_mask
                /\ woken' = woken
                /\ IsSome(mbox[m].waker) =>
                      \/ /\ ext' = ext /\ InTask("post")
                         /\ fut'[index].stage = "wake" /\ fut'[index].w = mbox[m].waker
                      \/ /\ ext' # ext
                         /\ ext'.pc = "wake" /\ ext'.waker = mbox[m].waker
       /\ (\/ InTask("post") /\ fut[index].stage = "wake" /\ fut'[index] # fut[index]
           \/ ext.pc = "wake" /\ ext'.pc = "idle") =>
               mbox' = mbox]_vars

\* A task has left the critical section of a post with the waiter it took
\* and has not woken it yet.
WakeOutsideCriticalSectionWitness ==
    /\ InTask("post")
    /\ fut[index].stage = "wake"
    /\ IsSome(fut[index].w)
    /\ mbox[Op(index)[2]] = [value |-> Some(Op(index)[3]), waker |-> None]

\* The sleep-until of the occupied slot i has been reached.
Due(i) ==
    /\ IsSome(tasks[i])
    /\ IsSome(Unwrap(tasks[i]).sleep_until)
    /\ Unwrap(Unwrap(tasks[i]).sleep_until) <= now

\* The step in which the closure of run_once runs for slot `index`.
VisitsSlot == pc = "check" /\ pc' \notin {"check", "abort"}

WokeInPass(i, j) == <<i, j>> \in pass.woke

\* The statement of C18 as it stands: a task that the poll of another
\* task has made runnable in a pass is not polled for that wake in the
\* same pass, whatever the order of the two slots.
WokenTaskWaitsForNextPass ==
    [][(pc = "check" /\ pc' = "poll" /\ ~Due(index)) =>
            \A i \in Slots : ~WokeInPass(i, index)]_vars

\* C18 (amended): a task j that the poll of task i has made runnable is
\* never entered from within the poll of i; it is polled when the pass
\* next comes to slot j, which is later in the same pass when j comes
\* after i and in the next pass when j comes before i: at the end of the
\* pass a later j has been polled and the ready bit of an earlier j is
\* still set, and that bit leads to the poll of j.
WokenTaskPolledAtItsNextTurn ==
    /\ [][~(pass'.woke \subseteq pass.woke) =>
            (pc = "poll" /\ (pc' = "poll" \/ pc' = "abort")
             /\ index' = index /\ current_task' = current_task
             /\ pass'.polled = pass.polled)]_vars
    /\ [][(pc = "check" /\ pc' = "poll") =>
            \A i \in Slots : WokeInPass(i, index) => i < index]_vars
    /\ [](pc = "leave" =>
            \A i, j \in Slots :
                WokeInPass(i, j) =>
                    /\ j > i => j \in pass.polled
                    /\ (j < i /\ IsSome(tasks[j])) => BitOf(j))
    /\ \A i, j \in Slots :
            (WokeInPass(i, j) /\ j < i /\ IsSome(tasks[j]) /\ pc = "leave")
                ~> ((pc = "poll" /\ index = j) \/ pc = "abort")

\* A task is being polled that the poll of an earlier slot has made
\* runnable in this pass.
WokenTaskPolledWitness ==
    /\ pc = "poll"
    /\ \E i \in Slots : i < index /\ WokeInPass(i, index)

\* The sleep-until values of the occupied slots.
SleepUntils ==
    { Unwrap(Unwrap(tasks[i]).sleep_until) :
        i \in { k \in Slots : IsSome(tasks[k]) /\ IsSome(Unwrap(tasks[k]).sleep_until) } }

Earliest(S) == CHOOSE t \in S : \A u \in S : t <= u

\* What the slots, as they stand, ask of the run loop.
PassRequirement ==
    IF SleepUntils # {} THEN WaitForTick(Earliest(SleepUntils))
    ELSE IF \E i \in Slots : IsSome(tasks[i]) THEN WaitForEvent
    ELSE NoMoreTasks

WakePending(j) == IsSome(tasks[j]) /\ woken[j]

\* C20: a wake delivered for an occupied slot, at any point and from any
\* context, keeps the slot's ready bit set until the pass visits the slot,
\* and that visit polls it; every pass visits every slot, so the poll is
\* in the pass that is going on or in the next one; the idle wait has to
\* return while such a bit is set; and the poll does come.
NoWakeMissed ==
    /\ [](\A j \in Slots : WakePending(j) => BitOf(j))
    /\ [][\A j \in Slots :
            (WakePending(j) /\ ~woken'[j]) =>
                (pc = "check" /\ index = j /\ pc' = "poll" /\ index' = j)]_vars
    /\ [](pc = "check" => index \in Slots)
    /\ [](pc = "leave" => index = N)
    /\ [](pc = "wait" /\ (\E j \in Slots : IsSome(tasks[j]) /\ BitOf(j))
            => WaitMustReturn)
    /\ \A j \in Slots :
            WakePending(j) ~> ((pc = "poll" /\ index = j) \/ pc = "abort")

\* The executor is in the idle wait with no deadline, and the second
\* execution context has woken an occupied slot.
NoWakeMissedWitness ==
    /\ pc = "wait"
    /\ Unwrap(acc).kind = "WaitForEvent"
    /\ ext.posts + ext.wakes > 0
    /\ \E j \in Slots : WakePending(j) /\ BitOf(j)

\* A step that wakes through the handle of slot j: by the second execution
\* context, which holds the handle or took it from a mailbox, or by a task
\* posting to a mailbox in which the handle is registered.
WakesHandle(j) ==
    \/ ExternalWake(j)
    \/ ExtPostWake /\ ext.waker = Some(j)
    \/ StepPostWake /\ fut[index].w = Some(j)

\* C21: waking the handle of a slot that has been freed is a no-op: the
\* ready bitmask and every slot are as before, and the run goes on.
StaleWakeIsInert ==
    [][\A j \in Slots :
          (pc # "new" /\ tasks[j] = None /\ WakesHandle(j)) =>
              (ready_mask' = ready_mask /\ tasks' = tasks /\ pc' = pc)]_vars

\* C22: WakerInfo::new fails with TaskIndexOutOfRange, and leaves the mask
\* as it was, for every index from 32 on; for an index below 32 it returns
\* the handle whose mask is 1 << index; so no handle has the bit of another
\* index.
NewRejectsUnrepresentable ==
    (wk.pc = "run" /\ wk.last.op = "new") =>
        /\ wk.last.idx >= MaskBits =>
              (wk.last.err = "TaskIndexOutOfRange" /\ wk.mask = wk.last.before)
        /\ wk.last.idx < MaskBits =>
              (wk.last.err = "" /\ wk.last.task_mask = Pow2(wk.last.idx))
        /\ \A h \in wk.handles :
              h.idx < MaskBits /\ h.task_mask = Pow2(h.idx)

\* A call on a handle has just been made in the waker.rs scenario.
WkCalled(op) == wk' # wk /\ wk'.last.op = op

\* The bits of mask m other than those of t.
OtherBits(m, t) == BitAndNot(m, t)

\* C26: whatever the order in which the calls of the two contexts take
\* effect, the bit of a handle that was woken stays set until
\* is_task_runnable is called on that handle; a wake sets the bit of its
\* handle and a take clears it, and neither changes another bit; the take
\* that follows a wake returns true.
WakeNeverLost ==
    /\ [](\A h \in wk.handles :
            h.idx \in wk.pending => BitAnd(wk.mask, h.task_mask) # 0)
    /\ [][WkCalled("wake") =>
            /\ BitAnd(wk'.mask, wk'.last.task_mask) # 0
            /\ OtherBits(wk'.mask, wk'.last.task_mask) = OtherBits(wk.mask, wk'.last.task_mask)]_vars
    /\ [][WkCalled("take") =>
            /\ wk'.last.ret = (wk'.last.idx \in wk.pending)
            /\ BitAnd(wk'.mask, wk'.last.task_mask) = 0
            /\ OtherBits(wk'.mask, wk'.last.task_mask) = OtherBits(wk.mask, wk'.last.task_mask)]_vars

\* The take on one handle returns true after calls on both handles, while
\* the wake of the other handle is still to be taken.
WakeNeverLostWitness ==
    /\ wk.pc = "run"
    /\ wk.last.op = "take" /\ wk.last.ret
    /\ wk.ops >= 3
    /\ \E h \in wk.handles : h.idx # wk.last.idx /\ h.idx \in wk.pending

\* C23: a call of sleep, yield_now or now made while no executor is
\* registered aborts.
FreeFunctionsNeedExecutor ==
    (call.fn # "" /\ ~call.registered) => call.outcome = "abort"

\* Inside a pass: from the registration to the end of the last slot's turn.
InPass == pc \in {"check", "poll", "pending", "leave"}

\* C24: the executor is registered when a pass begins and unregistered
\* when it ends, and at no other point; so it is registered during every
\* poll and not registered before run, in the idle wait and after run has
\* returned; and a task that starts an executor of its own aborts in the
\* registration of that executor.
RegistrationScopedToPass ==
    /\ [](InPass => env_executor)
    /\ [](pc \in {"new", "enter", "wait", "done"} => ~env_executor)
    /\ [][env_executor' # env_executor =>
            \/ pc = "enter" /\ pc' = "check" /\ env_executor'
            \/ pc = "leave" /\ pc' \in {"wait", "done"} /\ ~env_executor']_vars
    /\ [][(pc = "enter" /\ pc' # pc) => (pc' = "check" /\ env_executor')]_vars
    /\ [][(pc = "leave" /\ pc' # pc) => (pc' \in {"wait", "done"} /\ ~env_executor')]_vars
    /\ [][InTask("run") => fut' = fut]_vars
    /\ [][(InTask("run") /\ pc' # pc) => (pc' = "abort" /\ env_executor')]_vars

\* A task has aborted in the registration of its own executor, in the
\* second pass of the executor that polls it.
NestedRunWitness ==
    /\ pc = "abort"
    /\ env_executor
    /\ index \in Slots
    /\ progs[index] = NestedRun
    /\ fut[index].ip = 2

\* A step of the poll of slot k that wakes the task's own handle, and a
\* post of the polled task that wakes the handle of slot k where it takes it.
WakesOwn(k) == StepYield /\ index = k
PostWakes(k) == StepPost /\ mbox[Op(index)[2]].waker = Some(k)

\* A call on the handle of slot k: its construction, a wake, or the take.
OnHandle(k) ==
    \/ Run
    \/ RunTaskCheck /\ index = k
    \/ WakesHandle(k)
    \/ WakesOwn(k)
    \/ PostWakes(k)

\* C25: the construction of the handles sets the bit of every slot, so
\* that no slot is passed over before its first poll and the first pass
\* polls every task; and the bit of a slot changes only in a call on the
\* handle of that slot.
ConstructionMarksRunnable ==
    /\ [][(pc = "new" /\ pc' = "enter") => \A i \in Slots : BitOf(i)']_vars
    /\ [][(pc = "check" /\ pc' \notin {"check", "poll", "abort"}) =>
            fut[index] # InitFut]_vars
    /\ [](pc = "leave" => \A i \in Slots : i \in pass.polled \/ fut[i] # InitFut)
    /\ [][\A k \in Slots : (BitOf(k)' # BitOf(k)) => OnHandle(k)]_vars

\* The first pass is over: every task has been polled and none has been
\* woken since, nor has the clock advanced.
FirstPassWitness ==
    /\ pc = "leave"
    /\ pass.polled = Slots
    /\ now = 0
    /\ ext.posts + ext.wakes = 0
    /\ \A i \in Slots : fut[i] # InitFut

SleepUntilOf(tsk, k) == Unwrap(tsk[k]).sleep_until

AskedDeadline == fut[index].sleeps[fut[index].k].wake_at_tick

\* C29: while a slot is polled current_task is its index and the slot is
\* occupied; a poll of a sleep inside it never aborts in request_wakeup,
\* leaves the records of all other slots as they are, and a deadline it
\* requests is kept in the polled slot: the slot's sleep-until is then
\* that deadline, or the earlier one the slot already had.
DeadlineGoesToPolledSlot ==
    /\ [](pc \in {"poll", "pending"} =>
            current_task = index /\ IsSome(tasks[current_task]))
    /\ [][StepSleepPoll =>
            /\ pc' # "abort"
            /\ \A k \in Slots \ {index} : tasks'[k] = tasks[k]
            /\ reqs' # reqs =>
                  /\ AskedDeadline \in reqs'
                  /\ IsSome(SleepUntilOf(tasks', index))
                  /\ Unwrap(SleepUntilOf(tasks', index)) <= AskedDeadline
                  /\ SleepUntilOf(tasks', index) \in
                        {Some(AskedDeadline), SleepUntilOf(tasks, index)}]_vars

\* A sleep polled in a slot other than the first has stored its deadline
\* there, while the first slot keeps a different sleep-until of its own.
OwnDeadlineWitness ==
    /\ pc \in {"poll", "pending"}
    /\ index > 0
    /\ reqs # {}
    /\ SleepUntilOf(tasks, index) = Some(MinOf(reqs))
    /\ IsSome(tasks[0])
    /\ IsSome(SleepUntilOf(tasks, 0))
    /\ SleepUntilOf(tasks, 0) # SleepUntilOf(tasks, index)

\* C30: an Event starts unsignalled and once signalled stays so; a poll
\* of wait() is Ready exactly when the event is signalled at that poll; a
\* wait on an event that is already signalled is over at its first poll;
\* and block_on of the joined tasks, one signalling after a sleep and one
\* waiting, always ends, with the results of both.
EventWaitCompletes ==
    /\ ev.signaled = FALSE
    /\ [][ev.signaled => ev'.signaled]_vars
    /\ [](ev.last.polled => (ev.last.result = "Ready" <=> ev.last.signaled))
    /\ []((ev.scen = "already" /\ ev.a = "done" /\ ev.polls > 0) =>
            ev.pc = "done" /\ ev.polls = 1 /\ ev.result = << 42 >>)
    /\ [](ev.pc # "abort")
    /\ <>(ev.pc = "done")
    /\ []((ev.scen = "joined" /\ ev.pc = "done") =>
            ev.signaled /\ ev.result = << 10, 20 >>)

\* block_on of wait_for_event has returned: the waiting task was polled
\* and found the event unsignalled, and was over after the signal.
EventWaitWitness ==
    /\ ev.scen = "joined"
    /\ ev.dur = EventSleepTicks
    /\ ev.pc = "done"
    /\ ev.polls > 1
    /\ ev.last.result = "Ready"
    /\ ev.result = << 10, 20 >>

====
